---------------------------- MODULE Spec2Model ----------------------------
(***************************************************************************)
(* Chess-Automation: the position tracker (engine/move_validator.py), the  *)
(* move executor (control/move_executor.py, control/mapping_utils.py), the *)
(* piece-map encoder and the recognizer (vision/fen_converter.py,          *)
(* vision/piece_recognition.py) and the game-loop coordinator (main.py),   *)
(* as state machines.                                                      *)
(*                                                                         *)
(* Strings of the program that the code indexes or slices (square labels,  *)
(* move codes) are sequences of one-character strings: "e2e4" is           *)
(* <<"e","2","e","4">>.  The external rules library (python-chess) is a    *)
(* finite fragment of real chess: the lines 1.f3 e5 2.g4 Qh4# (fool's      *)
(* mate), 1.Nf3 Nf6 2.Ng1 Ng8 (back to the start), 1.e4 with the same      *)
(* knight shuffle, two bare kings stepping back and forth, and a stalemate *)
(* of king and bishop against king.                                        *)
(***************************************************************************)
EXTENDS Integers, Sequences, FiniteSets, TLC

VARIABLES
    board,          \* MoveValidator.board (a position and its push stack)
    move_history,   \* MoveValidator.move_history
    last,           \* the last call made on the tracker: operation, argument, result, pre-state
    exec,           \* the last execute_move call: executor, arguments, draws, result
    pc,             \* where main() / ChessAgent.run() stands
    config,         \* ChessAgent.config
    move_count,     \* ChessAgent.move_count
    game_active,    \* ChessAgent.game_active
    engine_proc,    \* the external engine process: "none", "running", "closed"
    ply,            \* the locals of play_one_move and what the ply did so far
    session,        \* what the session did so far: plies started, cleanups, exception raised
    call            \* the last call on a stateless component (mapper, encoder, recognizer)

trackerVars == <<board, move_history, last>>
agentVars == <<pc, config, move_count, game_active, engine_proc, ply, session>>
vars == <<board, move_history, last, exec, pc, config, move_count, game_active,
          engine_proc, ply, session, call>>

-----------------------------------------------------------------------------
(* Bounds of the model *)

MaxHistory == 2      \* TrackerSpec: longest move history explored
MaxShuffle == 16     \* GameOverSpec: longest move history explored
MaxMovesBound == 2   \* largest game_loop.max_moves of a configuration
JitterBound == 1     \* ExecSpec: largest jitter offset drawn
HoverBound == 1      \* ExecSpec: largest hover offset drawn
MaxOffset == 8       \* MapperSpec: largest left/top offset of a board region
MaxSquareSide == 3   \* MapperSpec: largest side of a square in pixels
MaxEntries == 2      \* VisionSpec: most entries of an enumerated piece map

-----------------------------------------------------------------------------
(* Move codes and square labels *)

Files == <<"a", "b", "c", "d", "e", "f", "g", "h">>
Ranks == <<"1", "2", "3", "4", "5", "6", "7", "8">>

SeqRange(s) == {s[i] : i \in 1..Len(s)}

IndexOf(s, c) == CHOOSE i \in 1..Len(s) : s[i] = c

SubStr(s, a, b) == [i \in 1..(b - a + 1) |-> s[a + i - 1]]

\* str.lower() on one character, for the characters the model uses
Lower(c) ==
    CASE c = "E" -> "e"
      [] c = "A" -> "a"
      [] OTHER   -> c

NoMove == <<>>

e2e4 == <<"e", "2", "e", "4">>
e2e5 == <<"e", "2", "e", "5">>
e7e5 == <<"e", "7", "e", "5">>
f2f3 == <<"f", "2", "f", "3">>
g2g4 == <<"g", "2", "g", "4">>
d8h4 == <<"d", "8", "h", "4">>
g1f3 == <<"g", "1", "f", "3">>
f3g1 == <<"f", "3", "g", "1">>
g8f6 == <<"g", "8", "f", "6">>
f6g8 == <<"f", "6", "g", "8">>
a1a2 == <<"a", "1", "a", "2">>
a2a1 == <<"a", "2", "a", "1">>
h8h7 == <<"h", "8", "h", "7">>
h7h8 == <<"h", "7", "h", "8">>

\* what a caller may pass as a move code: legal and illegal moves, a promotion
\* code, the null move, an upper-case code, a code with a bad square, a code
\* that is too short, one with a from-square equal to its to-square, one too long
MoveCodes ==
    { e2e4, e2e5, e7e5, f2f3, g2g4, d8h4, g1f3, f3g1, g8f6, f6g8,
      <<"e", "7", "e", "8", "q">>,
      <<"0", "0", "0", "0">>,
      <<"E", "2", "E", "4">>,
      <<"z", "9", "e", "4">>,
      <<"e", "2">>,
      <<"e", "2", "e", "2">>,
      <<"e", "2", "e", "4", "q", "q">> }

PromotionLetters == {"p", "n", "b", "r", "q", "k"}

IsSquareName(s) == Len(s) = 2 /\ s[1] \in SeqRange(Files) /\ s[2] \in SeqRange(Ranks)

\* chess.Move.from_uci(uci) returns a move (TRUE) or raises InvalidMoveError,
\* a ValueError (FALSE)
FromUciParses(uci) ==
    IF uci = <<"0", "0", "0", "0">> THEN TRUE
    ELSE IF Len(uci) \in {4, 5}
         THEN /\ IsSquareName(SubStr(uci, 1, 2))
              /\ IsSquareName(SubStr(uci, 3, 4))
              /\ (Len(uci) = 5 => uci[5] \in PromotionLetters)
              /\ SubStr(uci, 1, 2) # SubStr(uci, 3, 4)
         ELSE FALSE

-----------------------------------------------------------------------------
(* The rules library: positions, legal moves, push, terminal predicates *)

\* the legal moves of the fragment: from placement p with side t to move,
\* move m leads to placement q; pawn: a pawn move (resets the halfmove clock);
\* ep: the en-passant square a double pawn push sets
Edge(p, t, m, q, pawn, ep) == [p |-> p, t |-> t, m |-> m, q |-> q, pawn |-> pawn, ep |-> ep]

Edges ==
    { Edge("start",     "w", f2f3, "f3",        TRUE,  "-"),
      Edge("start",     "w", g1f3, "Nf3",       FALSE, "-"),
      Edge("start",     "w", e2e4, "e4",        TRUE,  "e3"),
      Edge("f3",        "b", e7e5, "f3e5",      TRUE,  "e6"),
      Edge("f3e5",      "w", g2g4, "f3e5g4",    TRUE,  "g3"),
      Edge("f3e5g4",    "b", d8h4, "mate",      FALSE, "-"),
      Edge("Nf3",       "b", g8f6, "Nf3Nf6",    FALSE, "-"),
      Edge("Nf3Nf6",    "w", f3g1, "Nf6",       FALSE, "-"),
      Edge("Nf6",       "b", f6g8, "start",     FALSE, "-"),
      Edge("e4",        "b", g8f6, "e4Nf6",     FALSE, "-"),
      Edge("e4Nf6",     "w", g1f3, "e4Nf3Nf6",  FALSE, "-"),
      Edge("e4Nf3Nf6",  "b", f6g8, "e4Nf3",     FALSE, "-"),
      Edge("e4Nf3",     "w", f3g1, "e4",        FALSE, "-"),
      Edge("KvK",       "w", a1a2, "KvK_a2",    FALSE, "-"),
      Edge("KvK_a2",    "b", h8h7, "KvK_a2h7",  FALSE, "-"),
      Edge("KvK_a2h7",  "w", a2a1, "KvK_h7",    FALSE, "-"),
      Edge("KvK_h7",    "b", h7h8, "KvK",       FALSE, "-") }

\* the part of a position that repetition and position equality look at
PosKey(b) == <<b.placement, b.turn, b.castling, b.ep>>

\* chess.Board(fen) for a well-formed position string: the position, no stack
BoardOf(placement, turn, castling, ep, halfmove, fullmove) ==
    [placement |-> placement, turn |-> turn, castling |-> castling, ep |-> ep,
     halfmove |-> halfmove, fullmove |-> fullmove, stack |-> <<>>]

\* chess.Board(): the standard starting position
StartBoard == BoardOf("start", "w", "KQkq", "-", 0, 1)

EdgesFrom(b) == {e \in Edges : e.p = b.placement /\ e.t = b.turn}

\* board.legal_moves, as move codes
LegalMoves(b) == {e.m : e \in EdgesFrom(b)}

\* board.push(move) for a legal move
Push(b, m) ==
    LET e == CHOOSE x \in EdgesFrom(b) : x.m = m
    IN  [placement |-> e.q,
         turn      |-> IF b.turn = "w" THEN "b" ELSE "w",
         castling  |-> b.castling,
         ep        |-> e.ep,
         halfmove  |-> IF e.pawn THEN 0 ELSE b.halfmove + 1,
         fullmove  |-> IF b.turn = "b" THEN b.fullmove + 1 ELSE b.fullmove,
         stack     |-> Append(b.stack, PosKey(b))]

\* placements in which the side to move is in check
CheckPlacements == {"mate"}

\* placements with too little material to mate: the two bare kings (Ka1 or
\* Ka2 against Kh8 or Kh7), and "stale": Kb6, Bc7 against Ka8, where Black to
\* move is not in check and has no move
BarePlacements == {"KvK", "KvK_a2", "KvK_a2h7", "KvK_h7", "stale"}

\* board.is_checkmate(), is_stalemate(), is_insufficient_material(),
\* is_seventyfive_moves(), is_fivefold_repetition()
IsCheckmate(b) == LegalMoves(b) = {} /\ b.placement \in CheckPlacements
IsStalemate(b) == LegalMoves(b) = {} /\ b.placement \notin CheckPlacements
IsInsufficientMaterial(b) == b.placement \in BarePlacements
IsSeventyfiveMoves(b) == b.halfmove >= 150 /\ LegalMoves(b) # {}
IsFivefoldRepetition(b) ==
    Cardinality({i \in 1..Len(b.stack) : b.stack[i] = PosKey(b)}) + 1 >= 5

-----------------------------------------------------------------------------
(* Position strings *)

\* a position string: wf says whether chess.Board(fen) parses it
Fen(wf, placement, turn, castling, ep, halfmove, fullmove) ==
    [wf |-> wf, placement |-> placement, turn |-> turn, castling |-> castling,
     ep |-> ep, halfmove |-> halfmove, fullmove |-> fullmove]

MalformedFen == Fen(FALSE, "garbage", "w", "-", "-", 0, 1)

NoFen == Fen(FALSE, "none", "w", "-", "-", 0, 1)

\* chess.Board(fen) of a well-formed position string
ParseFen(f) == BoardOf(f.placement, f.turn, f.castling, f.ep, f.halfmove, f.fullmove)

\* board.fen(): the en-passant field names a square only when a legal
\* en-passant capture exists, which no position of the fragment has
BoardFen(b) == Fen(TRUE, b.placement, b.turn, b.castling, "-", b.halfmove, b.fullmove)

\* position strings handed to the tracker
TrackerFens ==
    { Fen(TRUE, "start", "w", "KQkq", "-", 0, 1),
      Fen(TRUE, "f3e5", "w", "KQkq", "e6", 0, 2),
      Fen(TRUE, "f3e5g4", "b", "KQkq", "g3", 0, 2),
      Fen(TRUE, "mate", "w", "KQkq", "-", 1, 3),
      Fen(TRUE, "e4", "b", "KQkq", "e3", 0, 1),
      MalformedFen }

\* position strings of finished games: the fool's mate, the stalemate of king
\* and bishop against king, two bare kings after 150 halfmoves without a
\* capture or pawn move, and a full board after 150 such halfmoves
GameOverFens ==
    { Fen(TRUE, "mate", "w", "KQkq", "-", 1, 3),
      Fen(TRUE, "stale", "b", "-", "-", 0, 50),
      Fen(TRUE, "KvK", "w", "-", "-", 150, 100),
      Fen(TRUE, "Nf6", "b", "KQkq", "-", 150, 90),
      Fen(TRUE, "start", "w", "KQkq", "-", 0, 1) }

-----------------------------------------------------------------------------
(* MoveValidator: the position tracker *)

ReasonLegal == "Move is legal"
ReasonIllegal == "Illegal move"
ReasonFormat == "Invalid move format"

\* a validate_move that trusts every code that parses
validate_move_NoLegality(b, move_uci) ==
    IF FromUciParses(move_uci)
    THEN [ok |-> TRUE, reason |-> ReasonLegal]
    ELSE [ok |-> FALSE, reason |-> ReasonFormat]

validate_move(b, move_uci) ==
    IF FromUciParses(move_uci)
    THEN IF move_uci \in LegalMoves(b)
         THEN [ok |-> TRUE, reason |-> ReasonLegal]
         ELSE [ok |-> FALSE, reason |-> ReasonIllegal]
    ELSE [ok |-> FALSE, reason |-> ReasonFormat]

\* an apply_move that records the move in the history before it looks at the
\* outcome of the validation
apply_move_RecordsFirst(b, h, move_uci) ==
    LET v == validate_move(b, move_uci)
    IN  IF v.ok
        THEN [ret |-> TRUE, board |-> Push(b, move_uci), history |-> Append(h, move_uci)]
        ELSE [ret |-> FALSE, board |-> b, history |-> Append(h, move_uci)]

apply_move(b, h, move_uci) ==
    LET v == validate_move(b, move_uci)
    IN  IF v.ok
        THEN [ret |-> TRUE, board |-> Push(b, move_uci), history |-> Append(h, move_uci)]
        ELSE [ret |-> FALSE, board |-> b, history |-> h]

\* a sync_with_fen that takes the new position only when it is the current
\* one or one legal move away from it
sync_with_fen_ChecksReachable(b, fen) ==
    IF fen.wf /\ (\/ ParseFen(fen).placement = b.placement
                  \/ \E m \in LegalMoves(b) : Push(b, m).placement = fen.placement)
    THEN [ok |-> TRUE, board |-> ParseFen(fen)]
    ELSE [ok |-> FALSE, board |-> b]

sync_with_fen(b, fen) ==
    IF fen.wf
    THEN [ok |-> TRUE, board |-> ParseFen(fen)]
    ELSE [ok |-> FALSE, board |-> b]

\* _positions_equal(board1, board2): piece placement, side to move, castling
\* rights and the en-passant square as the board holds it; the counters are
\* not compared
positions_equal(board1, board2) ==
    /\ board1.placement = board2.placement
    /\ board1.turn = board2.turn
    /\ board1.castling = board2.castling
    /\ board1.ep = board2.ep

\* the legal moves whose resulting position equals the given one
MatchingMoves(b, new_board) ==
    {m \in LegalMoves(b) : positions_equal(Push(b, m), new_board)}

\* a detect_position_change that reports a legal move although none matches
detect_position_change_Guesses(b, new_fen) ==
    IF ~new_fen.wf THEN {NoMove}
    ELSE IF MatchingMoves(b, ParseFen(new_fen)) = {}
         THEN (IF LegalMoves(b) = {} THEN {NoMove} ELSE LegalMoves(b))
         ELSE MatchingMoves(b, ParseFen(new_fen))

\* detect_position_change(new_fen): the values the call may return, NoMove for
\* None.  The loop returns at the first match in the order the library
\* generates the legal moves, so any matching move may be the one returned.
detect_position_change(b, new_fen) ==
    IF ~new_fen.wf THEN {NoMove}
    ELSE IF MatchingMoves(b, ParseFen(new_fen)) = {}
         THEN {NoMove}
         ELSE MatchingMoves(b, ParseFen(new_fen))

get_current_fen(b) == BoardFen(b)

\* an is_game_over that looks at the 75-move rule before the material
is_game_over_SeventyFiveFirst(b) ==
    IF IsCheckmate(b)
    THEN [over |-> TRUE, reason |-> IF b.turn = "w" THEN "Checkmate - Black wins"
                                                  ELSE "Checkmate - White wins"]
    ELSE IF IsStalemate(b) THEN [over |-> TRUE, reason |-> "Stalemate"]
    ELSE IF IsSeventyfiveMoves(b) THEN [over |-> TRUE, reason |-> "75-move rule"]
    ELSE IF IsInsufficientMaterial(b) THEN [over |-> TRUE, reason |-> "Insufficient material"]
    ELSE IF IsFivefoldRepetition(b) THEN [over |-> TRUE, reason |-> "Fivefold repetition"]
    ELSE [over |-> FALSE, reason |-> "None"]

is_game_over(b) ==
    IF IsCheckmate(b)
    THEN [over |-> TRUE, reason |-> IF b.turn = "w" THEN "Checkmate - Black wins"
                                                  ELSE "Checkmate - White wins"]
    ELSE IF IsStalemate(b) THEN [over |-> TRUE, reason |-> "Stalemate"]
    ELSE IF IsInsufficientMaterial(b) THEN [over |-> TRUE, reason |-> "Insufficient material"]
    ELSE IF IsSeventyfiveMoves(b) THEN [over |-> TRUE, reason |-> "75-move rule"]
    ELSE IF IsFivefoldRepetition(b) THEN [over |-> TRUE, reason |-> "Fivefold repetition"]
    ELSE [over |-> FALSE, reason |-> "None"]

RaisedValueError == "ValueError raised"

\* a reset that keeps the history
reset_KeepsHistory(b, h, fen) ==
    IF fen = NoFen THEN [raised |-> FALSE, board |-> StartBoard, history |-> h]
    ELSE IF fen.wf THEN [raised |-> FALSE, board |-> ParseFen(fen), history |-> h]
    ELSE [raised |-> TRUE, board |-> b, history |-> h]

\* reset(fen): NoFen stands for None.  chess.Board(fen) raises ValueError on
\* a malformed string before either field is assigned.
reset(b, h, fen) ==
    IF fen = NoFen THEN [raised |-> FALSE, board |-> StartBoard, history |-> <<>>]
    ELSE IF fen.wf THEN [raised |-> FALSE, board |-> ParseFen(fen), history |-> <<>>]
    ELSE [raised |-> TRUE, board |-> b, history |-> h]

\* a call on the tracker, its result and the state it was made in
Call(op, move, fen, ok, reason, b, h) ==
    [op |-> op, move |-> move, fen |-> fen, ok |-> ok, reason |-> reason,
     pre_board |-> b, pre_history |-> h]

NoCall == Call("new", NoMove, NoFen, TRUE, "None", StartBoard, <<>>)

\* no call on a stateless component is under way
NoComponentCall == [op |-> "none"]

-----------------------------------------------------------------------------
(* SquareMapper: square labels to pixel coordinates *)

\* int() of the quotient n/d, d > 0: truncation toward zero
TruncDiv(n, d) == IF n >= 0 THEN n \div d ELSE -((-n) \div d)

\* SquareMapper(board_bbox, orientation)
SquareMapper(bbox, orientation) ==
    [left |-> bbox.left, top |-> bbox.top, width |-> bbox.width,
     height |-> bbox.height, orientation |-> orientation]

NoPoint == [ok |-> FALSE, x |-> 0, y |-> 0]

\* a square_to_pixels whose black-bottom branch flips no index
square_to_pixels_BlackUnflipped(mapper, square) ==
    IF Len(square) # 2 THEN NoPoint
    ELSE LET col == Lower(square[1])
             row == square[2]
         IN  IF col \notin SeqRange(Files) \/ row \notin SeqRange(Ranks) THEN NoPoint
             ELSE LET col_idx == IndexOf(Files, col) - 1
                      row_idx == IndexOf(Ranks, row) - 1
                      pixel_col == col_idx
                      pixel_row == IF mapper.orientation = "white" THEN 7 - row_idx ELSE row_idx
                  IN  [ok |-> TRUE,
                       x  |-> TruncDiv(16 * mapper.left + (2 * pixel_col + 1) * mapper.width, 16),
                       y  |-> TruncDiv(16 * mapper.top + (2 * pixel_row + 1) * mapper.height, 16)]

\* square_to_pixels: the centre of the square's cell, or ok = FALSE for the
\* ValueError it raises.  (pixel_col + 0.5) * (width / 8) is
\* (2 * pixel_col + 1) * width / 16, exact in floating point for these sizes.
square_to_pixels(mapper, square) ==
    IF Len(square) # 2 THEN NoPoint
    ELSE LET col == Lower(square[1])
             row == square[2]
         IN  IF col \notin SeqRange(Files) \/ row \notin SeqRange(Ranks) THEN NoPoint
             ELSE LET col_idx == IndexOf(Files, col) - 1
                      row_idx == IndexOf(Ranks, row) - 1
                      pixel_col == IF mapper.orientation = "white" THEN col_idx ELSE 7 - col_idx
                      pixel_row == IF mapper.orientation = "white" THEN 7 - row_idx ELSE row_idx
                  IN  [ok |-> TRUE,
                       x  |-> TruncDiv(16 * mapper.left + (2 * pixel_col + 1) * mapper.width, 16),
                       y  |-> TruncDiv(16 * mapper.top + (2 * pixel_row + 1) * mapper.height, 16)]

NoCoords == [ok |-> FALSE, from |-> NoPoint, to |-> NoPoint]

\* get_move_coordinates: the two points of a move code, or ok = FALSE for the
\* ValueError it raises or lets through
get_move_coordinates(mapper, move_uci) ==
    IF Len(move_uci) < 4 THEN NoCoords
    ELSE LET from_coords == square_to_pixels(mapper, SubStr(move_uci, 1, 2))
         IN  IF ~from_coords.ok THEN NoCoords
             ELSE LET to_coords == square_to_pixels(mapper, SubStr(move_uci, 3, 4))
                  IN  IF ~to_coords.ok THEN NoCoords
                      ELSE [ok |-> TRUE, from |-> from_coords, to |-> to_coords]

\* max(0, min(7, idx))
Clamp07(idx) == IF idx < 0 THEN 0 ELSE IF idx > 7 THEN 7 ELSE idx

\* a pixels_to_square that wraps the indices instead of clamping them
pixels_to_square_Wraps(mapper, x, y) ==
    LET col_idx == TruncDiv(8 * (x - mapper.left), mapper.width) % 8
        row_idx == TruncDiv(8 * (y - mapper.top), mapper.height) % 8
    IN  IF mapper.orientation = "white"
        THEN <<Files[col_idx + 1], Ranks[8 - row_idx]>>
        ELSE <<Files[(7 - col_idx) + 1], Ranks[row_idx + 1]>>

\* pixels_to_square: int((x - left) / (width / 8)) is int(8 * (x - left) / width)
pixels_to_square(mapper, x, y) ==
    LET col_idx == Clamp07(TruncDiv(8 * (x - mapper.left), mapper.width))
        row_idx == Clamp07(TruncDiv(8 * (y - mapper.top), mapper.height))
    IN  IF mapper.orientation = "white"
        THEN <<Files[col_idx + 1], Ranks[8 - row_idx]>>
        ELSE <<Files[(7 - col_idx) + 1], Ranks[row_idx + 1]>>

-----------------------------------------------------------------------------
(* Humanizer and MoveExecutor *)

DefaultJitterPixels == 3

\* the default delays before a move, in tenths of a second
DefaultMinDelay == 10

DefaultMaxDelay == 35

\* Humanizer(min_delay, max_delay, jitter_pixels), delays in tenths of a second
Humanizer(min_delay, max_delay, jitter_pixels) ==
    [min_delay |-> min_delay, max_delay |-> max_delay, jitter_pixels |-> jitter_pixels]

\* Humanizer(): the default parameters
DefaultHumanizer == Humanizer(DefaultMinDelay, DefaultMaxDelay, DefaultJitterPixels)

\* set_skill_level: the level is clamped to 1..10 and replaces the delays and
\* the jitter
set_skill_level(h, skill_level) ==
    LET level == IF skill_level < 1 THEN 1 ELSE IF skill_level > 10 THEN 10 ELSE skill_level
        jitter == 8 - level
    IN  [h EXCEPT !.min_delay = 30 - 2 * level,
                  !.max_delay = 60 - 3 * level,
                  !.jitter_pixels = IF jitter < 1 THEN 1 ELSE jitter]

\* MoveExecutor(board_bbox, orientation, use_humanizer)
MoveExecutor(bbox, orientation, use_humanizer) ==
    [mapper |-> SquareMapper(bbox, orientation),
     has_humanizer |-> use_humanizer,
     humanizer |-> DefaultHumanizer]

\* random.randint(a, b): any integer of a..b, both ends included
RandInt(a, b) == a..b

\* offsets drawn from the default range whatever jitter_pixels is
JitterOffsets_IgnoresSetting(h) == RandInt(-DefaultJitterPixels, DefaultJitterPixels)

\* the offsets add_pixel_jitter can draw for one axis
JitterOffsets(h) == RandInt(-h.jitter_pixels, h.jitter_pixels)

\* add_pixel_jitter with the two random.randint draws jx and jy
add_pixel_jitter(h, x, y, jx, jy) == [x |-> x + jx, y |-> y + jy]

\* the random draws and the failure of one execution: the four jitter offsets,
\* whether should_hover() says yes, the two hover offsets, and the pointer
\* call that raises (0: none)
Draws(jitters, hoverFlags, hovers, fails) ==
    [jfx : jitters, jfy : jitters, jtx : jitters, jty : jitters,
     hover : hoverFlags, hx : hovers, hy : hovers, failAt : fails]

PointerCall(kind, x, y) == [kind |-> kind, x |-> x, y |-> y]

\* the end points after the optional jitter
JitteredEnds(executor, coords, rnd) ==
    IF executor.has_humanizer
    THEN [from |-> add_pixel_jitter(executor.humanizer, coords.from.x, coords.from.y, rnd.jfx, rnd.jfy),
          to   |-> add_pixel_jitter(executor.humanizer, coords.to.x, coords.to.y, rnd.jtx, rnd.jty)]
    ELSE [from |-> [x |-> coords.from.x, y |-> coords.from.y],
          to   |-> [x |-> coords.to.x, y |-> coords.to.y]]

\* a _drag_piece that hands the destination itself to the relative drag
drag_piece_DragsByDestination(executor, coords, rnd) ==
    LET e == JitteredEnds(executor, coords, rnd)
        hover == IF executor.has_humanizer /\ rnd.hover
                 THEN <<PointerCall("moveTo", e.from.x + rnd.hx, e.from.y + rnd.hy)>>
                 ELSE <<>>
    IN  hover \o <<PointerCall("moveTo", e.from.x, e.from.y),
                   PointerCall("drag", e.to.x, e.to.y)>>

\* _drag_piece: the pointer calls it makes, in order
drag_piece(executor, coords, rnd) ==
    LET e == JitteredEnds(executor, coords, rnd)
        hover == IF executor.has_humanizer /\ rnd.hover
                 THEN <<PointerCall("moveTo", e.from.x + rnd.hx, e.from.y + rnd.hy)>>
                 ELSE <<>>
    IN  hover \o <<PointerCall("moveTo", e.from.x, e.from.y),
                   PointerCall("drag", e.to.x - e.from.x, e.to.y - e.from.y)>>

\* _click_move: the pointer calls it makes, in order
click_move(executor, coords, rnd) ==
    LET e == JitteredEnds(executor, coords, rnd)
    IN  <<PointerCall("moveTo", e.from.x, e.from.y),
          PointerCall("click", 0, 0),
          PointerCall("moveTo", e.to.x, e.to.y),
          PointerCall("click", 0, 0)>>

\* an execute_move whose handler lets the failure of a pointer call go by and
\* reports success
execute_move_SwallowsFailure(executor, move_uci, drag, rnd) ==
    LET coords == get_move_coordinates(executor.mapper, move_uci)
    IN  IF ~coords.ok THEN [ok |-> FALSE, raised |-> FALSE, log |-> <<>>]
        ELSE LET plan == IF drag THEN drag_piece(executor, coords, rnd)
                                 ELSE click_move(executor, coords, rnd)
             IN  IF rnd.failAt \in 1..Len(plan)
                 THEN [ok |-> TRUE, raised |-> FALSE, log |-> SubSeq(plan, 1, rnd.failAt - 1)]
                 ELSE [ok |-> TRUE, raised |-> FALSE, log |-> plan]

\* execute_move: ok is its return value, log the pointer calls that completed,
\* raised whether an exception left it.  The try block encloses the whole
\* body, so the ValueError of the mapper and the exception of a pointer call
\* both end in "return False".
execute_move(executor, move_uci, drag, rnd) ==
    LET coords == get_move_coordinates(executor.mapper, move_uci)
    IN  IF ~coords.ok THEN [ok |-> FALSE, raised |-> FALSE, log |-> <<>>]
        ELSE LET plan == IF drag THEN drag_piece(executor, coords, rnd)
                                 ELSE click_move(executor, coords, rnd)
             IN  IF rnd.failAt \in 1..Len(plan)
                 THEN [ok |-> FALSE, raised |-> FALSE, log |-> SubSeq(plan, 1, rnd.failAt - 1)]
                 ELSE [ok |-> TRUE, raised |-> FALSE, log |-> plan]

Kinds(log) == [i \in 1..Len(log) |-> log[i].kind]

-----------------------------------------------------------------------------
(* The executor driven by arbitrary calls *)

NoDraw == [jfx |-> 0, jfy |-> 0, jtx |-> 0, jty |-> 0, hover |-> FALSE, hx |-> 0, hy |-> 0, failAt |-> 0]

ExecCall(called, executor, move, drag, rnd, ret) ==
    [called |-> called, executor |-> executor, move |-> move, drag |-> drag,
     rnd |-> rnd, ret |-> ret]

ExecRegion == [left |-> 100, top |-> 100, width |-> 800, height |-> 800]

NoExec ==
    ExecCall(FALSE, MoveExecutor(ExecRegion, "white", FALSE), NoMove, TRUE, NoDraw,
             [ok |-> FALSE, raised |-> FALSE, log |-> <<>>])

\* random.randint(-jitter_pixels, jitter_pixels), within the bound of the model
JitterDraws(h) ==
    {j \in -JitterBound..JitterBound : -h.jitter_pixels <= j /\ j <= h.jitter_pixels}

\* pyautogui.random.randint(-20, 20), within the bound of the model
HoverDraws == {j \in -HoverBound..HoverBound : -20 <= j /\ j <= 20}

\* the move codes handed to the executor
ExecMoves ==
    { e2e4,
      <<"E", "2", "E", "4">>,
      <<"e", "2", "e", "4", "q", "q">>,
      <<"z", "9", "e", "4">>,
      <<"e", "2">>,
      <<"0", "0", "0", "0">> }

-----------------------------------------------------------------------------
(* FENConverter, as the coordinator uses it *)

\* piece_map_to_fen(piece_map) with its default arguments: white to move, all
\* castling rights, no en-passant square, clocks 0 and 1
piece_map_to_fen(placement) == Fen(TRUE, placement, "w", "KQkq", "-", 0, 1)

\* placements with both kings and all four rooks on their home squares
HomePlacements == {e.p : e \in Edges} \cup {e.q : e \in Edges}

\* chess.Board(fen).is_valid(): both kings present, castling rights that match
\* the kings and rooks, the side that is not to move not in check
IsValid(b) ==
    /\ \/ b.placement \in HomePlacements
       \/ b.placement \in BarePlacements /\ b.castling = "-"
    /\ ~(b.placement \in CheckPlacements /\ b.turn = "b")

validate_fen(fen) == fen.wf /\ IsValid(ParseFen(fen))

\* the placements the recognizer reports in the sessions explored: the start,
\* a position after 1.e4 Nf6 2.Nf3 Ng8, the fool's mate, an empty board
SessionPlacements == {"start", "e4Nf3", "mate", "empty"}

\* the codes StockfishEngine.get_best_move returns (result.move.uci()): a
\* move code that parses, which the wrapper does not check against any position
EngineMoves == {e2e4, f3g1, e2e5, <<"0", "0", "0", "0">>}

-----------------------------------------------------------------------------
(* FENConverter.piece_map_to_fen and PieceRecognizer.recognize *)

\* a piece map is the sequence of its entries in the order the dict yields
\* them; an entry has a square label and a piece_info.  A piece_info is a dict
\* (type "dict") whose "piece" and "color" values are words, MissingKey when
\* the key is absent or JsonNull for null; or it is a string or null
MissingKey == "<missing>"
JsonNull == "<null>"

PieceInfo(type, piece, color) == [type |-> type, piece |-> piece, color |-> color]

Entry(square, info) == [square |-> square, info |-> info]

\* str.lower() on the words the model uses
LowerWord(w) ==
    CASE w = "Pawn"  -> "pawn"
      [] w = "BLACK" -> "black"
      [] OTHER       -> w

\* PIECE_SYMBOLS.get((piece_type, color)): the letter, or "None"
PieceSymbol(piece_type, color) ==
    CASE piece_type = "pawn"   /\ color = "white" -> "P"
      [] piece_type = "pawn"   /\ color = "black" -> "p"
      [] piece_type = "knight" /\ color = "white" -> "N"
      [] piece_type = "knight" /\ color = "black" -> "n"
      [] piece_type = "bishop" /\ color = "white" -> "B"
      [] piece_type = "bishop" /\ color = "black" -> "b"
      [] piece_type = "rook"   /\ color = "white" -> "R"
      [] piece_type = "rook"   /\ color = "black" -> "r"
      [] piece_type = "queen"  /\ color = "white" -> "Q"
      [] piece_type = "queen"  /\ color = "black" -> "q"
      [] piece_type = "king"   /\ color = "white" -> "K"
      [] piece_type = "king"   /\ color = "black" -> "k"
      [] OTHER -> "None"

\* ord(c) - ord('a') for the characters the model uses
OrdFromA(c) ==
    IF c \in SeqRange(Files) THEN IndexOf(Files, c) - 1
    ELSE IF c = "z" THEN 25
    ELSE IF c = "E" THEN -28
    ELSE -48

Digits == <<"0", "1", "2", "3", "4", "5", "6", "7", "8", "9">>

\* [[None] * 8] * 8, rows and columns 0..7
EmptyBoardArray == [row \in 0..7 |-> [col \in 0..7 |-> "None"]]

\* a PlaceEntry that counts the ranks from the top: row = int(square[1]) - 1
PlaceEntry_RankOneFirst(arr, e) ==
    LET square == e.square
        info == e.info
        skip == [raised |-> FALSE, arr |-> arr]
        abort == [raised |-> TRUE, arr |-> arr]
    IN  IF Len(square) < 2 THEN skip
        ELSE IF square[2] \notin SeqRange(Digits) THEN skip
        ELSE LET col == OrdFromA(square[1])
                 row == (IndexOf(Digits, square[2]) - 1) - 1
             IN  IF ~(0 <= col /\ col < 8 /\ 0 <= row /\ row < 8) THEN skip
                 ELSE IF info.type # "dict" THEN abort
                 ELSE IF info.piece = MissingKey THEN skip
                 ELSE IF info.piece = JsonNull THEN abort
                 ELSE IF info.color = MissingKey THEN skip
                 ELSE IF info.color = JsonNull THEN abort
                 ELSE LET piece_symbol == PieceSymbol(LowerWord(info.piece),
                                                      LowerWord(info.color))
                      IN  IF piece_symbol # "None"
                          THEN [raised |-> FALSE,
                                arr |-> [arr EXCEPT ![row][col] = piece_symbol]]
                          ELSE skip

\* the body of the loop over piece_map.items() for one entry: the array after
\* it, and raised = TRUE for an exception the except clause does not name
\* (TypeError of a piece_info that is no dict, AttributeError of a null value)
PlaceEntry(arr, e) ==
    LET square == e.square
        info == e.info
        skip == [raised |-> FALSE, arr |-> arr]
        abort == [raised |-> TRUE, arr |-> arr]
    IN  IF Len(square) < 2 THEN skip                            \* IndexError
        ELSE IF square[2] \notin SeqRange(Digits) THEN skip     \* ValueError
        ELSE LET col == OrdFromA(square[1])
                 row == 8 - (IndexOf(Digits, square[2]) - 1)
             IN  IF ~(0 <= col /\ col < 8 /\ 0 <= row /\ row < 8) THEN skip
                 ELSE IF info.type # "dict" THEN abort           \* TypeError
                 ELSE IF info.piece = MissingKey THEN skip       \* KeyError
                 ELSE IF info.piece = JsonNull THEN abort        \* AttributeError
                 ELSE IF info.color = MissingKey THEN skip       \* KeyError
                 ELSE IF info.color = JsonNull THEN abort        \* AttributeError
                 ELSE LET piece_symbol == PieceSymbol(LowerWord(info.piece),
                                                      LowerWord(info.color))
                      IN  IF piece_symbol # "None"
                          THEN [raised |-> FALSE,
                                arr |-> [arr EXCEPT ![row][col] = piece_symbol]]
                          ELSE skip

RECURSIVE FillFrom(_, _, _)
FillFrom(arr, piece_map, i) ==
    IF i > Len(piece_map) THEN [raised |-> FALSE, arr |-> arr]
    ELSE LET r == PlaceEntry(arr, piece_map[i])
         IN  IF r.raised THEN r ELSE FillFrom(r.arr, piece_map, i + 1)

\* board_array after the loop over the entries
board_array(piece_map) == FillFrom(EmptyBoardArray, piece_map, 1)

\* the loop over one row: empty squares are counted, a piece flushes the
\* count; flush says whether the count left at the end of the row is written
RECURSIVE FenRowFrom(_, _, _, _, _)
FenRowFrom(row, col, empty_count, fen_row, flush) ==
    IF col = 8
    THEN IF empty_count > 0 /\ flush THEN Append(fen_row, Digits[empty_count + 1])
                                     ELSE fen_row
    ELSE IF row[col] = "None"
         THEN FenRowFrom(row, col + 1, empty_count + 1, fen_row, flush)
         ELSE FenRowFrom(row, col + 1, 0,
                         (IF empty_count > 0 THEN Append(fen_row, Digits[empty_count + 1])
                                             ELSE fen_row) \o <<row[col]>>,
                         flush)

\* a row encoder that forgets the empty squares at the end of a row
fen_row_DropsTrailingRun(row) == FenRowFrom(row, 0, 0, <<>>, FALSE)

fen_row(row) == FenRowFrom(row, 0, 0, <<>>, TRUE)

\* "/".join(fen_rows)
RECURSIVE JoinFrom(_, _)
JoinFrom(arr, row) ==
    IF row = 7 THEN fen_row(arr[row])
    ELSE fen_row(arr[row]) \o <<"/">> \o JoinFrom(arr, row + 1)

position(arr) == JoinFrom(arr, 0)

\* piece_map_to_fen(piece_map): the placement field of the string it returns,
\* or raised = TRUE when an exception leaves it
EncodePieceMap(piece_map) ==
    LET filled == board_array(piece_map)
    IN  IF filled.raised
        THEN [raised |-> TRUE, arr |-> filled.arr, position |-> <<>>]
        ELSE [raised |-> FALSE, arr |-> filled.arr, position |-> position(filled.arr)]

\* capture_screen(region): sct.grab(region) gives an image of the region
\* alone, region.height rows of region.width pixels
capture_screen(region) == [rows |-> region.height, cols |-> region.width]

\* capture_board(): capture_screen(self.board_region)
capture_board(board_region) == capture_screen(board_region)

\* the indices a[start:stop] keeps of an axis of n elements: a negative bound
\* counts from the end, every bound is clipped to 0..n
SliceBound(n, k) == IF k < 0 THEN (IF n + k < 0 THEN 0 ELSE n + k)
                    ELSE IF k > n THEN n ELSE k

Slice(n, start, stop) ==
    LET lo == SliceBound(n, start)
        hi == SliceBound(n, stop)
    IN  [first |-> lo, count |-> IF hi > lo THEN hi - lo ELSE 0]

\* crop_board(image, bbox = bbox): image[y:y+h, x:x+w], as the rows and the
\* columns of the image it keeps
crop_board(image, bbox) ==
    LET x == bbox.left
        y == bbox.top
        w == bbox.width
        h == bbox.height
    IN  [rows |-> Slice(image.rows, y, y + h), cols |-> Slice(image.cols, x, x + w)]

\* process_board(image, bbox): the crop, then normalize_board, whose
\* cv2.resize raises on an image without pixels
process_board(image, bbox) ==
    LET cropped == crop_board(image, bbox)
    IN  [cropped |-> cropped,
         raised |-> (cropped.rows.count = 0 \/ cropped.cols.count = 0)]

\* one match of a pattern of _parse_text_response in the reply: the square
\* ([a-h][1-8], any case), the two words after it, and whether the pattern
\* is the one with "piece": ... "color": ... (the first word is the piece) or
\* one of the two plain ones (the first word is the colour)
Match(square, first, second, keyed) ==
    [square |-> square, first |-> first, second |-> second, keyed |-> keyed]

\* piece_map[square] = value on a dict kept as the sequence of its items
SetItem(piece_map, square, value) ==
    IF \E i \in 1..Len(piece_map) : piece_map[i].square = square
    THEN [i \in 1..Len(piece_map) |->
             IF piece_map[i].square = square THEN Entry(square, value) ELSE piece_map[i]]
    ELSE Append(piece_map, Entry(square, value))

\* _parse_text_response: every match becomes an entry, its words lower-cased
\* and taken as they are
RECURSIVE ParseMatchesFrom(_, _, _)
ParseMatchesFrom(matches, i, piece_map) ==
    IF i > Len(matches) THEN piece_map
    ELSE LET mt == matches[i]
             square == [k \in 1..Len(mt.square) |-> Lower(mt.square[k])]
             piece == LowerWord(IF mt.keyed THEN mt.first ELSE mt.second)
             color == LowerWord(IF mt.keyed THEN mt.second ELSE mt.first)
         IN  ParseMatchesFrom(matches, i + 1,
                              SetItem(piece_map, square, PieceInfo("dict", piece, color)))

parse_text_response(matches) == ParseMatchesFrom(matches, 1, <<>>)

\* _parse_response: a reply that holds a JSON object is returned as
\* json.loads gives it; any other reply goes to _parse_text_response
parse_response(response) ==
    IF response.json THEN response.object
    ELSE parse_text_response(response.matches)

\* recognize(board_image): fail1 and fail2 say whether the first generate call
\* and the fallback generate call raise; parsed is what _parse_response makes
\* of the model's text
recognize(fail1, fail2, parsed) ==
    IF ~fail1 \/ ~fail2
    THEN [raised |-> FALSE, piece_map |-> parsed]
    ELSE [raised |-> TRUE, piece_map |-> <<>>]

-----------------------------------------------------------------------------
(* ChessAgent: main(), component initialisation, run() and play_one_move() *)

BoardRegion == [left |-> 100, top |-> 100, width |-> 800, height |-> 800]

\* config['humanizer']: delays of 1.0 to 3.5 seconds, 3 pixels of jitter,
\* skill level 3
HumanizerSettings ==
    { [min_delay |-> 10, max_delay |-> 35, jitter_pixels |-> 3, skill_level |-> 3] }

Configs ==
    [abort_on_illegal_move : BOOLEAN,
     max_moves : 0..MaxMovesBound,
     drag : BOOLEAN,
     humanizer_enabled : BOOLEAN,
     orientation : {"white", "black"},
     board_region : {BoardRegion},
     humanizer : HumanizerSettings]

\* the locals of play_one_move at its start, and a ply that did nothing yet
NewPly ==
    [fen_before |-> NoFen, best_move |-> NoMove, is_valid |-> FALSE, success |-> FALSE,
     result |-> "none", queries |-> 0, pointer |-> <<>>, handed |-> NoMove,
     rejected |-> FALSE, synced |-> FALSE, over |-> FALSE]

NewSession == [plies |-> 0, cleanups |-> 0, raised |-> "none", escaped |-> FALSE]

\* the executor _initialize_components builds
Executor == MoveExecutor(config.board_region, config.orientation, config.humanizer_enabled)

\* self.humanizer of the agent, built when config['humanizer']['enabled']:
\* Humanizer(configured values), then set_skill_level(configured level)
AgentHumanizer ==
    set_skill_level(Humanizer(config.humanizer.min_delay, config.humanizer.max_delay,
                              config.humanizer.jitter_pixels),
                    config.humanizer.skill_level)

\* an exception leaves the step at hand and reaches the handlers of run()
Raise(kind) ==
    /\ pc' = "handler"
    /\ session' = [session EXCEPT !.raised = kind]

\* main() before ChessAgent(config) is constructed
AgentInit ==
    /\ pc = "main"
    /\ config \in Configs
    /\ move_count = 0
    /\ game_active = FALSE
    /\ engine_proc = "none"
    /\ ply = NewPly
    /\ session = NewSession
    /\ board = StartBoard
    /\ move_history = <<>>
    /\ last = NoCall
    /\ exec = NoExec
    /\ call = NoComponentCall

\* _initialize_components, the vision components: they are built before the
\* engine is spawned; an exception here ends the program
InitVision ==
    /\ pc = "main"
    /\ \/ pc' = "init_engine"
       \/ pc' = "crashed"
    /\ UNCHANGED <<trackerVars, exec, call, config, move_count, game_active, engine_proc, ply, session>>

\* StockfishEngine(...): popen_uci spawns the process, configure sets the
\* options; _initialize_engine turns any exception into a RuntimeError
InitEngine ==
    /\ pc = "init_engine"
    /\ \/ /\ engine_proc' = "none"          \* popen_uci fails
          /\ pc' = "crashed"
       \/ /\ engine_proc' = "running"       \* configure fails
          /\ pc' = "crashed"
       \/ /\ engine_proc' = "running"
          /\ pc' = "init_control"
    /\ UNCHANGED <<trackerVars, exec, call, config, move_count, game_active, ply, session>>

\* the components built after the engine: tracker, mapper, executor,
\* humanizer; then __init__ sets move_count and game_active
InitControl ==
    /\ pc = "init_control"
    /\ \/ /\ pc' = "run"
          /\ board' = StartBoard
          /\ move_history' = <<>>
          /\ move_count' = 0
          /\ game_active' = FALSE
       \/ /\ pc' = "crashed"
          /\ UNCHANGED <<board, move_history, move_count, game_active>>
    /\ UNCHANGED <<last, exec, call, config, engine_proc, ply, session>>

\* run(), up to the loop
RunStart ==
    /\ pc = "run"
    /\ game_active' = TRUE
    /\ pc' = "loop"
    /\ UNCHANGED <<trackerVars, exec, call, config, move_count, engine_proc, ply, session>>

\* while self.game_active and self.move_count < max_moves
LoopTest ==
    /\ pc = "loop"
    /\ IF game_active /\ move_count < config.max_moves
       THEN /\ pc' = "capture"
            /\ ply' = NewPly
            /\ session' = [session EXCEPT !.plies = @ + 1]
       ELSE /\ pc' = "cleanup"
            /\ UNCHANGED <<ply, session>>
    /\ UNCHANGED <<trackerVars, exec, call, config, move_count, game_active, engine_proc>>

\* capture_and_analyze_board: capture, normalise, recognise, encode
PlayCapture ==
    /\ pc = "capture"
    /\ \/ \E p \in SessionPlacements :
             /\ ply' = [ply EXCEPT !.fen_before = piece_map_to_fen(p)]
             /\ pc' = "validate_fen"
             /\ UNCHANGED session
       \/ /\ Raise("Exception")
          /\ UNCHANGED ply
    /\ UNCHANGED <<trackerVars, exec, call, config, move_count, game_active, engine_proc>>

\* if not validate_fen(fen_before): return False
PlayValidateFen ==
    /\ pc = "validate_fen"
    /\ IF validate_fen(ply.fen_before)
       THEN /\ pc' = "sync"
            /\ UNCHANGED ply
       ELSE /\ pc' = "after_ply"
            /\ ply' = [ply EXCEPT !.rejected = TRUE, !.result = "false"]
    /\ UNCHANGED <<trackerVars, exec, call, config, move_count, game_active, engine_proc, session>>

\* a play_one_move that syncs the tracker and never asks it whether the game
\* is over
PlaySync_NoGameOverCheck ==
    /\ pc = "sync"
    /\ board' = sync_with_fen(board, ply.fen_before).board
    /\ ply' = [ply EXCEPT !.synced = TRUE]
    /\ pc' = "engine"
    /\ UNCHANGED <<move_history, last, exec, call, config, move_count, game_active, engine_proc,
                   session>>

\* sync_with_fen(fen_before), then is_game_over()
PlaySync ==
    /\ pc = "sync"
    /\ LET synced == sync_with_fen(board, ply.fen_before).board
       IN  /\ board' = synced
           /\ IF is_game_over(synced).over
              THEN /\ game_active' = FALSE
                   /\ ply' = [ply EXCEPT !.synced = TRUE, !.over = TRUE, !.result = "false"]
                   /\ pc' = "after_ply"
              ELSE /\ pc' = "engine"
                   /\ ply' = [ply EXCEPT !.synced = TRUE]
                   /\ UNCHANGED game_active
    /\ UNCHANGED <<move_history, last, exec, call, config, move_count, engine_proc, session>>

\* calculate_best_move(fen_before): the engine's reply, or the RuntimeError
\* get_best_move raises
PlayEngine ==
    /\ pc = "engine"
    /\ \/ \E m \in EngineMoves :
             /\ ply' = [ply EXCEPT !.best_move = m, !.queries = @ + 1]
             /\ pc' = "validate_move"
             /\ UNCHANGED session
       \/ /\ ply' = [ply EXCEPT !.queries = @ + 1]
          /\ Raise("Exception")
    /\ UNCHANGED <<trackerVars, exec, call, config, move_count, game_active, engine_proc>>

\* validate_move(best_move); an illegal move ends the ply only when
\* abort_on_illegal_move is set
PlayValidateMove ==
    /\ pc = "validate_move"
    /\ LET v == validate_move(board, ply.best_move)
       IN  IF ~v.ok /\ config.abort_on_illegal_move
           THEN /\ game_active' = FALSE
                /\ ply' = [ply EXCEPT !.is_valid = v.ok, !.result = "false"]
                /\ pc' = "after_ply"
           ELSE /\ ply' = [ply EXCEPT !.is_valid = v.ok]
                /\ pc' = "execute"
                /\ UNCHANGED game_active
    /\ UNCHANGED <<trackerVars, exec, call, config, move_count, engine_proc, session>>

\* execute_move_on_board(best_move).  The coordinator sees the return value;
\* the pointer calls are kept by kind, which the jitter and hover offsets do
\* not change, so they are drawn as 0 here.
PlayExecute ==
    /\ pc = "execute"
    /\ \E rnd \in Draws({0}, BOOLEAN, {0}, 0..4) :
          LET r == execute_move(Executor, ply.best_move, config.drag, rnd)
          IN  ply' = [ply EXCEPT !.success = r.ok, !.handed = ply.best_move,
                                 !.pointer = Kinds(r.log)]
    /\ pc' = "record"
    /\ UNCHANGED <<trackerVars, exec, call, config, move_count, game_active, engine_proc, session>>

\* if success: apply_move(best_move), move_count += 1, return True;
\* else: return False.  The return value of apply_move is not looked at.
PlayRecord ==
    /\ pc = "record"
    /\ IF ply.success
       THEN LET r == apply_move(board, move_history, ply.best_move)
            IN  /\ board' = r.board
                /\ move_history' = r.history
                /\ move_count' = move_count + 1
                /\ ply' = [ply EXCEPT !.result = "true"]
       ELSE /\ ply' = [ply EXCEPT !.result = "false"]
            /\ UNCHANGED <<board, move_history, move_count>>
    /\ pc' = "after_ply"
    /\ UNCHANGED <<last, exec, call, config, game_active, engine_proc, session>>

\* a loop that goes on to the next capture after a ply that returned False
AfterPly_SkipsFailedPly ==
    /\ pc = "after_ply"
    /\ IF ~game_active
       THEN pc' = "cleanup"
       ELSE pc' = "wait"
    /\ UNCHANGED <<trackerVars, exec, call, config, move_count, game_active, engine_proc, ply, session>>

\* if not success or not self.game_active: break
AfterPly ==
    /\ pc = "after_ply"
    /\ IF ply.result = "false" \/ ~game_active
       THEN pc' = "cleanup"
       ELSE pc' = "wait"
    /\ UNCHANGED <<trackerVars, exec, call, config, move_count, game_active, engine_proc, ply, session>>

\* the wait for the opponent: input() or time.sleep(2)
WaitOpponent ==
    /\ pc = "wait"
    /\ \/ /\ pc' = "loop"
          /\ UNCHANGED session
       \/ Raise("Exception")
    /\ UNCHANGED <<trackerVars, exec, call, config, move_count, game_active, engine_proc, ply>>

InTry == {"loop", "capture", "validate_fen", "sync", "engine", "validate_move",
          "execute", "record", "after_ply", "wait"}

\* the user interrupts the program inside the try block of run()
Interrupt ==
    /\ pc \in InTry
    /\ Raise("KeyboardInterrupt")
    /\ UNCHANGED <<trackerVars, exec, call, config, move_count, game_active, engine_proc, ply>>

\* a run() whose handlers catch the user interrupt only
Handler_InterruptOnly ==
    /\ pc = "handler"
    /\ session' = [session EXCEPT !.escaped = (session.raised # "KeyboardInterrupt")]
    /\ pc' = "cleanup"
    /\ UNCHANGED <<trackerVars, exec, call, config, move_count, game_active, engine_proc, ply>>

\* except KeyboardInterrupt / except Exception of run(): both are caught, and
\* the finally clause runs next
Handler ==
    /\ pc = "handler"
    /\ session' = [session EXCEPT !.escaped = (session.raised \notin {"KeyboardInterrupt", "Exception"})]
    /\ pc' = "cleanup"
    /\ UNCHANGED <<trackerVars, exec, call, config, move_count, game_active, engine_proc, ply>>

\* finally: self.cleanup(), which closes the engine; run() returns
Cleanup ==
    /\ pc = "cleanup"
    /\ engine_proc' = "closed"
    /\ session' = [session EXCEPT !.cleanups = @ + 1]
    /\ pc' = "exit"
    /\ UNCHANGED <<trackerVars, exec, call, config, move_count, game_active, ply>>

\* main(): the with statement ends, __exit__ calls cleanup() once more
ExitContext ==
    /\ pc = "exit"
    /\ engine_proc' = "closed"
    /\ session' = [session EXCEPT !.cleanups = @ + 1]
    /\ pc' = "done"
    /\ UNCHANGED <<trackerVars, exec, call, config, move_count, game_active, ply>>

Next ==
    \/ InitVision \/ InitEngine \/ InitControl \/ RunStart \/ LoopTest
    \/ PlayCapture \/ PlayValidateFen \/ PlaySync \/ PlayEngine \/ PlayValidateMove
    \/ PlayExecute \/ PlayRecord \/ AfterPly \/ WaitOpponent
    \/ Interrupt \/ Handler \/ Cleanup \/ ExitContext

Spec == AgentInit /\ [][Next]_vars

\* every step that is enabled is eventually taken: every external call and
\* the wait for the opponent return
FairSpec == Spec /\ WF_vars(Next)

-----------------------------------------------------------------------------
(* The tracker driven by arbitrary calls *)

\* the coordinator at rest, for the specifications that drive one component
AgentIdle ==
    /\ pc = "idle"
    /\ config = [abort_on_illegal_move |-> TRUE, max_moves |-> 0, drag |-> TRUE,
                 humanizer_enabled |-> FALSE, orientation |-> "white",
                 board_region |-> BoardRegion]
    /\ move_count = 0
    /\ game_active = FALSE
    /\ engine_proc = "none"
    /\ ply = NewPly
    /\ session = NewSession

\* MoveValidator(): the standard starting position, an empty history
TrackerInit ==
    /\ board = StartBoard
    /\ move_history = <<>>
    /\ last = NoCall
    /\ exec = NoExec
    /\ call = NoComponentCall
    /\ AgentIdle

TValidate ==
    \E m \in MoveCodes :
        LET v == validate_move(board, m)
        IN  /\ last' = Call("validate_move", m, NoFen, v.ok, v.reason, board, move_history)
            /\ UNCHANGED <<board, move_history, exec, call, agentVars>>

TApply ==
    \E m \in MoveCodes :
        LET r == apply_move(board, move_history, m)
        IN  /\ Len(move_history) < MaxHistory
            /\ board' = r.board
            /\ move_history' = r.history
            /\ last' = Call("apply_move", m, NoFen, r.ret, "None", board, move_history)
            /\ UNCHANGED <<exec, call, agentVars>>

TSync ==
    \E f \in TrackerFens :
        LET r == sync_with_fen(board, f)
        IN  /\ board' = r.board
            /\ last' = Call("sync_with_fen", NoMove, f, r.ok, "None", board, move_history)
            /\ UNCHANGED <<move_history, exec, call, agentVars>>

\* detect_position_change with a position string handed in from outside or
\* with the tracker's own string of the position after a legal move; the
\* record keeps the returned move in its move field
TDetect ==
    \E f \in TrackerFens \cup {BoardFen(Push(board, m)) : m \in LegalMoves(board)} :
        \E r \in detect_position_change(board, f) :
            /\ last' = Call("detect_position_change", r, f, r # NoMove, "None",
                            board, move_history)
            /\ UNCHANGED <<board, move_history, exec, call, agentVars>>

TGameOver ==
    LET r == is_game_over(board)
    IN  /\ last' = Call("is_game_over", NoMove, NoFen, r.over, r.reason, board, move_history)
        /\ UNCHANGED <<board, move_history, exec, call, agentVars>>

TReset ==
    \E f \in TrackerFens \cup {NoFen} :
        LET r == reset(board, move_history, f)
        IN  /\ board' = r.board
            /\ move_history' = r.history
            /\ last' = Call("reset", NoMove, f, ~r.raised,
                            IF r.raised THEN RaisedValueError ELSE "None",
                            board, move_history)
            /\ UNCHANGED <<exec, call, agentVars>>

TrackerNext == TValidate \/ TApply \/ TSync \/ TDetect \/ TGameOver \/ TReset

TrackerSpec == TrackerInit /\ [][TrackerNext]_vars

\* a long game on one tracker: the position is synced from a position string
\* before the first move, the knights go out and back, and is_game_over is
\* asked
ShuffleMoves == {g1f3, g8f6, f3g1, f6g8, e2e5}

TShuffle ==
    \E m \in ShuffleMoves :
        LET r == apply_move(board, move_history, m)
        IN  /\ Len(move_history) < MaxShuffle
            /\ board' = r.board
            /\ move_history' = r.history
            /\ last' = Call("apply_move", m, NoFen, r.ret, "None", board, move_history)
            /\ UNCHANGED <<exec, call, agentVars>>

TSyncOver ==
    \E f \in GameOverFens :
        LET r == sync_with_fen(board, f)
        IN  /\ move_history = <<>>
            /\ board' = r.board
            /\ last' = Call("sync_with_fen", NoMove, f, r.ok, "None", board, move_history)
            /\ UNCHANGED <<move_history, exec, call, agentVars>>

GameOverNext == TShuffle \/ TSyncOver \/ TGameOver

GameOverSpec == TrackerInit /\ [][GameOverNext]_vars

\* MoveExecutor(board_bbox, orientation, use_humanizer).execute_move(move, drag)
ExecInit ==
    /\ board = StartBoard
    /\ move_history = <<>>
    /\ last = NoCall
    /\ exec = NoExec
    /\ call = NoComponentCall
    /\ AgentIdle

\* the draws one execution makes: none when the move code does not map (the
\* mapper raises first), no jitter without a humanizer, hover offsets only
\* when a drag hovers
ExecDraws(executor, move, drag) ==
    IF ~get_move_coordinates(executor.mapper, move).ok THEN {NoDraw}
    ELSE LET jitters == IF executor.has_humanizer THEN JitterDraws(executor.humanizer) ELSE {0}
         IN  Draws(jitters, {FALSE}, {0}, 0..4)
             \cup (IF executor.has_humanizer /\ drag
                   THEN Draws(jitters, {TRUE}, HoverDraws, 0..4)
                   ELSE {})

ExecuteMove ==
    /\ ~exec.called
    /\ \E o \in {"white", "black"}, h \in BOOLEAN, m \in ExecMoves, d \in BOOLEAN :
          LET executor == MoveExecutor(ExecRegion, o, h)
          IN  \E rnd \in ExecDraws(executor, m, d) :
                  exec' = ExecCall(TRUE, executor, m, d, rnd, execute_move(executor, m, d, rnd))
    /\ UNCHANGED <<trackerVars, agentVars, call>>

\* the caller is done with the result
ExecReturn ==
    /\ exec.called
    /\ exec' = NoExec
    /\ UNCHANGED <<trackerVars, agentVars, call>>

ExecNext == ExecuteMove \/ ExecReturn

ExecSpec == ExecInit /\ [][ExecNext]_vars

\* Humanizer(jitter_pixels = n).add_pixel_jitter(x, y) on its own
MaxJitterPixels == 3

JitterPoints == {-1, 0, 500}

HumanizerInit == ExecInit

HAddPixelJitter ==
    /\ call.op = "none"
    /\ \E n \in 0..MaxJitterPixels, x \in JitterPoints, y \in JitterPoints :
          LET h == Humanizer(DefaultMinDelay, DefaultMaxDelay, n)
          IN  \E jx \in JitterOffsets(h), jy \in JitterOffsets(h) :
                 call' = [op |-> "add_pixel_jitter", humanizer |-> h, x |-> x, y |-> y,
                          ret |-> add_pixel_jitter(h, x, y, jx, jy)]
    /\ UNCHANGED <<trackerVars, exec, agentVars>>

HReturn ==
    /\ call.op = "add_pixel_jitter"
    /\ call' = NoComponentCall
    /\ UNCHANGED <<trackerVars, exec, agentVars>>

HumanizerNext == HAddPixelJitter \/ HReturn

HumanizerSpec == HumanizerInit /\ [][HumanizerNext]_vars

\* SquareMapper(board_bbox, orientation): a square label is mapped to its
\* pixel and the pixel is mapped back
MapperRegions ==
    {[left |-> l, top |-> t, width |-> 8 * w, height |-> 8 * h] :
        l \in {-MaxOffset, 0, MaxOffset}, t \in {-MaxOffset, 0, MaxOffset},
        w \in 1..MaxSquareSide, h \in 1..MaxSquareSide}

\* the 64 square labels, and labels square_to_pixels rejects
SquareLabels == {<<Files[i], Ranks[j]>> : i \in 1..8, j \in 1..8}

BadSquareLabels == {<<"z", "9">>, <<"e">>, <<"e", "2", "e">>, <<"e", "0">>}

MapperInit == ExecInit

MSquareToPixels ==
    /\ call.op = "none"
    /\ \E bbox \in MapperRegions, o \in {"white", "black"},
          sq \in SquareLabels \cup BadSquareLabels :
          LET mapper == SquareMapper(bbox, o)
          IN  call' = [op |-> "square_to_pixels", mapper |-> mapper, square |-> sq,
                       point |-> square_to_pixels(mapper, sq)]
    /\ UNCHANGED <<trackerVars, exec, agentVars>>

MPixelsToSquare ==
    /\ call.op = "square_to_pixels"
    /\ call.point.ok
    /\ call' = [op |-> "pixels_to_square", mapper |-> call.mapper, square |-> call.square,
                 point |-> call.point,
                 back |-> pixels_to_square(call.mapper, call.point.x, call.point.y)]
    /\ UNCHANGED <<trackerVars, exec, agentVars>>

\* the pixels a caller asks about, by their offset from the region's corner:
\* before it, on its first and last pixel, inside and past it
PixelOffsets(size) == {-size - 1, -2, -1, 0, 1, size \div 2, size - 1, size, size + 1}

\* pixels_to_square(x, y) on any pixel
MPixelAt ==
    /\ call.op = "none"
    /\ \E bbox \in MapperRegions, o \in {"white", "black"} :
          \E dx \in PixelOffsets(bbox.width), dy \in PixelOffsets(bbox.height) :
             LET mapper == SquareMapper(bbox, o)
                 x == bbox.left + dx
                 y == bbox.top + dy
             IN  call' = [op |-> "pixels_to_square(x, y)", mapper |-> mapper,
                          x |-> x, y |-> y, back |-> pixels_to_square(mapper, x, y)]
    /\ UNCHANGED <<trackerVars, exec, agentVars>>

MReturn ==
    /\ call.op \in {"square_to_pixels", "pixels_to_square", "pixels_to_square(x, y)"}
    /\ call' = NoComponentCall
    /\ UNCHANGED <<trackerVars, exec, agentVars>>

MapperNext == MSquareToPixels \/ MPixelsToSquare \/ MPixelAt \/ MReturn

MapperSpec == MapperInit /\ [][MapperNext]_vars

\* the vision pipeline of capture_and_analyze_board: recognize, then
\* piece_map_to_fen on the piece map it returned
KingWhite == PieceInfo("dict", "king", "white")

\* the entries a recognized piece map is made of: pieces on e4, a1, h8 and e1;
\* labels outside a1..h8; piece kinds and colours outside the vocabulary; a
\* piece_info without "color", with a null "piece", a string, a null
MapEntries ==
    { Entry(<<"e", "4">>, KingWhite),
      Entry(<<"e", "4">>, PieceInfo("dict", "queen", "black")),
      Entry(<<"a", "1">>, PieceInfo("dict", "Pawn", "BLACK")),
      Entry(<<"h", "8">>, PieceInfo("dict", "rook", "white")),
      Entry(<<"e", "1">>, PieceInfo("dict", "knight", "black")),
      Entry(<<"z", "9">>, KingWhite),
      Entry(<<"e">>, KingWhite),
      Entry(<<"e", "x">>, KingWhite),
      Entry(<<"E", "4">>, KingWhite),
      Entry(<<"e", "1", "0">>, KingWhite),
      Entry(<<"z", "9">>, PieceInfo("null", JsonNull, JsonNull)),
      Entry(<<"a", "1">>, PieceInfo("dict", "dragon", "white")),
      Entry(<<"a", "1">>, PieceInfo("dict", "pawn", "red")),
      Entry(<<"h", "8">>, PieceInfo("dict", "rook", MissingKey)),
      Entry(<<"h", "8">>, PieceInfo("dict", JsonNull, "white")),
      Entry(<<"h", "8">>, PieceInfo("str", "white rook", MissingKey)),
      Entry(<<"e", "4">>, PieceInfo("null", JsonNull, JsonNull)) }

\* a pawn on every square
FullPieceMap ==
    [i \in 1..64 |-> Entry(<<Files[((i - 1) % 8) + 1], Ranks[((i - 1) \div 8) + 1]>>,
                           PieceInfo("dict", "pawn", "white"))]

\* the JSON objects of a reply: every sequence of at most MaxEntries entries
\* with different keys (the empty object included) and the full board
PieceMaps ==
    {pm \in UNION {[1..n -> MapEntries] : n \in 0..MaxEntries} :
        \A i, j \in 1..Len(pm) : pm[i].square = pm[j].square => i = j}
    \cup {FullPieceMap}

\* replies without a JSON object, by the pattern matches they hold
TextReplies ==
    { <<>>,
      <<Match(<<"e", "2">>, "white", "Pawn", FALSE)>>,
      <<Match(<<"E", "2">>, "purple", "dragon", FALSE)>>,
      <<Match(<<"e", "4">>, "king", "white", TRUE),
        Match(<<"E", "4">>, "BLACK", "queen", FALSE)>>,
      <<Match(<<"a", "1">>, "rook", "white", TRUE),
        Match(<<"h", "8">>, "the", "rook", FALSE)>> }

\* the replies of the model
Responses ==
    {[json |-> TRUE, object |-> pm, matches |-> <<>>] : pm \in PieceMaps}
    \cup {[json |-> FALSE, object |-> <<>>, matches |-> t] : t \in TextReplies}

VisionInit == ExecInit

\* board_image = capturer.capture_board();
\* processed_board = detector.process_board(board_image, bbox = board_region)
VProcessBoard ==
    /\ call.op = "none"
    /\ \E board_region \in MapperRegions \cup {BoardRegion} :
          LET board_image == capture_board(board_region)
              r == process_board(board_image, board_region)
          IN  call' = [op |-> "process_board", board_region |-> board_region,
                       board_image |-> board_image, cropped |-> r.cropped,
                       raised |-> r.raised]
    /\ UNCHANGED <<trackerVars, exec, agentVars>>

VRecognize ==
    /\ call.op = "none" \/ (call.op = "process_board" /\ ~call.raised)
    /\ \E fail1 \in BOOLEAN, fail2 \in BOOLEAN, response \in Responses :
          /\ (fail1 /\ fail2) => (response.json /\ response.object = <<>>)
          /\ LET r == recognize(fail1, fail2, parse_response(response))
             IN  call' = [op |-> "recognize", fail1 |-> fail1, fail2 |-> fail2,
                          json |-> response.json,
                          raised |-> r.raised, piece_map |-> r.piece_map]
    /\ UNCHANGED <<trackerVars, exec, agentVars>>

VEncode ==
    /\ call.op = "recognize"
    /\ ~call.raised
    /\ LET r == EncodePieceMap(call.piece_map)
       IN  call' = [op |-> "piece_map_to_fen", piece_map |-> call.piece_map,
                    raised |-> r.raised, arr |-> r.arr, position |-> r.position]
    /\ UNCHANGED <<trackerVars, exec, agentVars>>

VReturn ==
    /\ call.op \in {"process_board", "recognize", "piece_map_to_fen"}
    /\ call' = NoComponentCall
    /\ UNCHANGED <<trackerVars, exec, agentVars>>

VisionNext == VProcessBoard \/ VRecognize \/ VEncode \/ VReturn

VisionSpec == VisionInit /\ [][VisionNext]_vars

-----------------------------------------------------------------------------
(* utils/helpers.py: the retry decorator *)

MaxAttempts == 3

\* what one invocation of the wrapped function does: it returns, or raises
\* one of two exceptions
Outcomes == {"ok", "ValueError", "KeyError"}

\* the loop of wrapper(): outcomes[k] is what the k-th invocation does;
\* trace is the invocations and sleeps made so far
RECURSIVE RetryLoop(_, _, _, _, _)
RetryLoop(max_attempts, outcomes, attempts, last_exception, trace) ==
    IF attempts < max_attempts
    THEN LET o == outcomes[attempts + 1]
         IN  IF o = "ok"
             THEN [returned |-> TRUE, raised |-> "none", trace |-> Append(trace, "call")]
             ELSE RetryLoop(max_attempts, outcomes, attempts + 1, o,
                            Append(trace, "call")
                               \o (IF attempts + 1 < max_attempts THEN <<"sleep">> ELSE <<>>))
    ELSE \* raise last_exception; "raise None" is a TypeError
         [returned |-> FALSE,
          raised |-> IF last_exception = "None" THEN "TypeError" ELSE last_exception,
          trace |-> trace]

\* retry(max_attempts, delay)(func)(): attempts = 0, last_exception = None
retry(max_attempts, outcomes) == RetryLoop(max_attempts, outcomes, 0, "None", <<>>)

RetryInit == ExecInit

\* one call of a wrapped function
RCall ==
    /\ call.op = "none"
    /\ \E max_attempts \in 0..MaxAttempts, outcomes \in [1..(MaxAttempts + 1) -> Outcomes] :
          LET r == retry(max_attempts, outcomes)
          IN  call' = [op |-> "retry", max_attempts |-> max_attempts, outcomes |-> outcomes,
                       returned |-> r.returned, raised |-> r.raised, trace |-> r.trace]
    /\ UNCHANGED <<trackerVars, exec, agentVars>>

RReturn ==
    /\ call.op = "retry"
    /\ call' = NoComponentCall
    /\ UNCHANGED <<trackerVars, exec, agentVars>>

RetryNext == RCall \/ RReturn

RetrySpec == RetryInit /\ [][RetryNext]_vars

-----------------------------------------------------------------------------
(* Properties of the tracker (TrackerSpec) *)

\* C1: apply_move(m) pushes m onto the position and appends m to the history
\* exactly when validate_move(m) succeeds in the state it is called in, and
\* then returns true; otherwise it returns false and the position and the
\* history are what they were.
C1_ApplyIffValid ==
    last.op = "apply_move" =>
        IF FromUciParses(last.move) /\ last.move \in LegalMoves(last.pre_board)
        THEN /\ last.ok
             /\ board = Push(last.pre_board, last.move)
             /\ move_history = Append(last.pre_history, last.move)
        ELSE /\ ~last.ok
             /\ board = last.pre_board
             /\ move_history = last.pre_history

\* an apply_move was rejected after another was accepted
C1_Witness ==
    /\ last.op = "apply_move" /\ ~last.ok /\ last.move = e2e5
    /\ move_history = <<e2e4>>

\* C2: validate_move(m) is ok exactly when m parses as a move code and is a
\* legal move of the tracker's current position; a failure names a malformed
\* code or an illegal move, each for its own case; e2e4, legal at the start,
\* is illegal once it has been applied; the call changes nothing.
C2_ValidateMove ==
    last.op = "validate_move" =>
        LET legal == \E e \in Edges : /\ e.p = last.pre_board.placement
                                      /\ e.t = last.pre_board.turn
                                      /\ e.m = last.move
        IN  /\ last.ok <=> (FromUciParses(last.move) /\ legal)
            /\ last.ok => last.reason = ReasonLegal
            /\ ~last.ok =>
                  last.reason = (IF FromUciParses(last.move) THEN ReasonIllegal ELSE ReasonFormat)
            /\ (last.move = e2e4 /\ last.pre_board = Push(StartBoard, e2e4)) => ~last.ok
            /\ board = last.pre_board
            /\ move_history = last.pre_history

\* e2e4 is validated again after it was applied to the start position
C2_Witness ==
    /\ last.op = "validate_move" /\ last.move = e2e4
    /\ last.pre_history = <<e2e4>> /\ last.pre_board = Push(StartBoard, e2e4)
    /\ ~last.ok /\ last.reason = ReasonIllegal

-----------------------------------------------------------------------------
(* Properties of the coordinator (Spec, FairSpec) *)

\* C3: whatever abort_on_illegal_move is, a move is handed to the executor
\* only if validate_move accepted it in the same ply.
C3_OnlyValidatedMovesExecuted ==
    ply.handed # NoMove => ply.is_valid

\* C4: a ply whose execution succeeded appends the executed move to the
\* tracker's history and advances move_count by one; a ply whose execution
\* failed changes neither the tracker nor move_count, returns False, and the
\* loop ends.
C4_SuccessRecordsAndCounts ==
    [][ /\ (pc = "record" /\ pc' = "after_ply") =>
              IF ply.success
              THEN /\ move_history' = Append(move_history, ply.best_move)
                   /\ move_count' = move_count + 1
              ELSE /\ UNCHANGED <<board, move_history, move_count>>
                   /\ ply'.result = "false"
        /\ (pc = "after_ply" /\ ply.handed # NoMove /\ ~ply.success /\ pc' # "handler") =>
              pc' = "cleanup" ]_vars

\* C5: when the program has ended, on whatever path, the engine process that
\* was spawned is not left running.
C5_EngineClosedOnExit ==
    pc \in {"done", "crashed"} => engine_proc # "running"

\* C6: run() leaves its loop and reaches cleanup; a ply starts only while the
\* session is active and move_count is below max_moves; a ply that does not
\* end the session has advanced move_count; move_count and the number of plies
\* played never exceed max_moves.
C6_RunTerminates ==
    /\ [](move_count <= config.max_moves /\ session.plies <= config.max_moves)
    /\ [](pc = "wait" => move_count = session.plies)
    /\ [][(pc = "loop" /\ pc' = "capture") => (game_active /\ move_count < config.max_moves)]_vars
    /\ (pc = "loop") ~> (session.cleanups > 0)

\* a session played max_moves plies, at least two, and was cleaned up
C6_Witness ==
    /\ pc = "done" /\ session.cleanups > 0
    /\ config.max_moves >= 2 /\ move_count = config.max_moves /\ session.plies = config.max_moves

\* the recognized position of the ply was synced and the tracker reports it terminal
TerminalPly ==
    /\ ply.synced
    /\ is_game_over(ParseFen(ply.fen_before)).over

\* C7: in a ply whose synced position is terminal, no engine query and no
\* pointer action is made, the session is marked inactive, and the loop goes
\* on to no further ply.
C7_TerminalStopsPly ==
    TerminalPly =>
        /\ ply.queries = 0
        /\ ply.pointer = <<>>
        /\ ply.handed = NoMove
        /\ ~game_active
        /\ pc \in {"after_ply", "handler", "cleanup", "exit", "done"}

\* a session ended on the checkmate position
C7_Witness ==
    /\ TerminalPly /\ pc = "done" /\ ply.over
    /\ IsCheckmate(board) /\ session.raised = "none"

\* C8: a ply whose recognized position fails validation makes no engine query
\* and no pointer action, and the session goes on to the next capture instead
\* of ending.
C8_InvalidFenSkipsPly ==
    (ply.rejected /\ session.raised = "none") =>
        /\ ply.queries = 0
        /\ ply.pointer = <<>>
        /\ pc \notin {"cleanup", "exit", "done"}

\* C9: an exception raised in a step of a ply does not leave run(): it ends
\* the session, and cleanup runs.
C9_NoEscape ==
    session.raised # "none" =>
        /\ ~session.escaped
        /\ pc \in {"handler", "cleanup", "exit", "done"}
        /\ pc \in {"exit", "done"} => session.cleanups >= 1

\* the engine query of a ply raised and the program ended after cleanup
C9_Witness ==
    /\ session.raised = "Exception" /\ pc = "done" /\ session.cleanups >= 1
    /\ ply.queries = 1 /\ ply.best_move = NoMove

-----------------------------------------------------------------------------
(* Properties of the executor (ExecSpec) *)

\* the move code names two squares the mapper accepts
MapsToTwoSquares(m) ==
    /\ Len(m) >= 4
    /\ Lower(m[1]) \in SeqRange(Files) /\ m[2] \in SeqRange(Ranks)
    /\ Lower(m[3]) \in SeqRange(Files) /\ m[4] \in SeqRange(Ranks)

\* the pointer calls of a complete execution, by kind
FullSequence(executor, drag, rnd) ==
    IF drag
    THEN IF executor.has_humanizer /\ rnd.hover
         THEN <<"moveTo", "moveTo", "drag">>
         ELSE <<"moveTo", "drag">>
    ELSE <<"moveTo", "click", "moveTo", "click">>

\* C10: execute_move returns true only if the whole pointer sequence
\* completed; an exception of the mapper or of a pointer call yields false
\* and does not propagate; for a move code that does not map to two valid
\* squares no pointer call is made.
C10_ExecuteMoveTotal ==
    exec.called =>
        LET full == FullSequence(exec.executor, exec.drag, exec.rnd)
        IN  /\ ~exec.ret.raised
            /\ exec.ret.ok => (MapsToTwoSquares(exec.move) /\ Kinds(exec.ret.log) = full)
            /\ (MapsToTwoSquares(exec.move) /\ exec.rnd.failAt \in 1..Len(full)) => ~exec.ret.ok
            /\ ~MapsToTwoSquares(exec.move) => (~exec.ret.ok /\ exec.ret.log = <<>>)

\* the second pointer call of a click-click execution raised
C10_Witness ==
    /\ exec.called /\ ~exec.drag /\ exec.rnd.failAt = 2
    /\ ~exec.ret.ok /\ Kinds(exec.ret.log) = <<"moveTo">>

-----------------------------------------------------------------------------
(* More properties of the tracker (TrackerSpec, GameOverSpec) *)

\* C11: an operation that parses a square label, a move code or a position
\* string reports malformed input as a failure result and never lets an
\* exception reach its caller; here: no call on the tracker, reset included,
\* ends in a raised ValueError.
C11_MalformedNeverRaises ==
    last.reason # RaisedValueError

OnlyMoveLeadingThere(b, M) ==
    \A M2 \in LegalMoves(b) : positions_equal(Push(b, M2), Push(b, M)) => M2 = M

\* C13: for a tracker position P and a move M legal in P that is the only
\* legal move leading to P-after-M under the comparison,
\* detect_position_change called with the position string of P-after-M
\* returns M and leaves the position and the history unchanged.
C13_DetectReturnsMove ==
    last.op = "detect_position_change" =>
        \A M \in LegalMoves(last.pre_board) :
            (/\ last.fen = BoardFen(Push(last.pre_board, M))
             /\ OnlyMoveLeadingThere(last.pre_board, M))
            => /\ last.move = M
               /\ board = last.pre_board
               /\ move_history = last.pre_history

C15_GameOverPriority ==
    last.op = "is_game_over" =>
        LET b == last.pre_board
        IN  /\ IsCheckmate(b) =>
                  /\ last.ok
                  /\ b.turn = "w" => last.reason = "Checkmate - Black wins"
                  /\ b.turn = "b" => last.reason = "Checkmate - White wins"
            /\ (~IsCheckmate(b) /\ IsStalemate(b)) =>
                  (last.ok /\ last.reason = "Stalemate")
            /\ (~IsCheckmate(b) /\ ~IsStalemate(b) /\ IsInsufficientMaterial(b)) =>
                  (last.ok /\ last.reason = "Insufficient material")
            /\ (/\ ~IsCheckmate(b) /\ ~IsStalemate(b) /\ ~IsInsufficientMaterial(b)
                /\ IsSeventyfiveMoves(b)) =>
                  (last.ok /\ last.reason = "75-move rule")
            /\ (/\ ~IsCheckmate(b) /\ ~IsStalemate(b) /\ ~IsInsufficientMaterial(b)
                /\ ~IsSeventyfiveMoves(b) /\ IsFivefoldRepetition(b)) =>
                  (last.ok /\ last.reason = "Fivefold repetition")
            /\ ~last.ok <=> (/\ ~IsCheckmate(b) /\ ~IsStalemate(b)
                             /\ ~IsInsufficientMaterial(b) /\ ~IsSeventyfiveMoves(b)
                             /\ ~IsFivefoldRepetition(b))
            /\ ~last.ok => last.reason = "None"
            /\ board = b

\* two bare kings after 150 halfmoves: both the material and the 75-move
\* condition hold and the material is reported
C15_Witness ==
    /\ last.op = "is_game_over" /\ last.ok /\ last.reason = "Insufficient material"
    /\ IsSeventyfiveMoves(last.pre_board) /\ IsInsufficientMaterial(last.pre_board)

\* C16: the history is the ordered sequence of the moves apply_move accepted
\* since construction or the last reset: an accepted apply_move appends its
\* move, a reset empties the history and installs the given or the standard
\* starting position, and no other call (validate_move,
\* detect_position_change, is_game_over, sync_with_fen, a rejected
\* apply_move) changes it.
C16_HistoryIsAppliedMoves ==
    /\ move_history =
          (IF last.op = "apply_move" /\ last.ok THEN Append(last.pre_history, last.move)
           ELSE IF last.op = "reset" /\ last.ok THEN <<>>
           ELSE last.pre_history)
    /\ (last.op = "reset" /\ last.ok) =>
          board = (IF last.fen = NoFen THEN StartBoard ELSE ParseFen(last.fen))
    /\ \A i \in 1..Len(move_history) : FromUciParses(move_history[i])

\* a reset to a given position after two moves were applied
C16_Witness ==
    /\ last.op = "reset" /\ last.ok /\ last.pre_history = <<e2e4, g8f6>>
    /\ move_history = <<>> /\ last.fen.placement = "f3e5" /\ board = ParseFen(last.fen)

-----------------------------------------------------------------------------
(* Properties of the mapper (MapperSpec) *)

\* C17: for every valid square, both orientations and every region whose
\* width and height are divisible by 8, at any integer offset, mapping the
\* square to its pixel and the pixel back gives the square.
C17_RoundTrip ==
    (/\ call.op = "pixels_to_square"
     /\ call.square \in SquareLabels
     /\ call.mapper.width % 8 = 0 /\ call.mapper.height % 8 = 0)
    => call.back = call.square

-----------------------------------------------------------------------------
(* Properties of the vision pipeline (VisionSpec) *)

\* the "/"-separated segments of a placement field
RECURSIVE SplitFrom(_, _, _, _)
SplitFrom(chars, i, segment, segments) ==
    IF i > Len(chars) THEN Append(segments, segment)
    ELSE IF chars[i] = "/" THEN SplitFrom(chars, i + 1, <<>>, Append(segments, segment))
    ELSE SplitFrom(chars, i + 1, Append(segment, chars[i]), segments)

RankSegments(chars) == SplitFrom(chars, 1, <<>>, <<>>)

\* digits as run lengths plus one per letter
RECURSIVE SquaresFrom(_, _)
SquaresFrom(segment, i) ==
    IF i > Len(segment) THEN 0
    ELSE (IF segment[i] \in SeqRange(Digits) THEN IndexOf(Digits, segment[i]) - 1 ELSE 1)
         + SquaresFrom(segment, i + 1)

\* C18: for every piece map, empty, partial or full, the placement field
\* piece_map_to_fen produces has exactly 8 "/"-separated rank segments, and in
\* each the digits as run lengths plus one per letter add up to 8.
C18_EightRanksOfEight ==
    (call.op = "piece_map_to_fen" /\ ~call.raised) =>
        LET segments == RankSegments(call.position)
        IN  /\ Len(segments) = 8
            /\ \A r \in 1..8 : SquaresFrom(segments[r], 1) = 8

\* a king on e4 and a rook on h8, nothing else
C18_Witness ==
    /\ call.op = "piece_map_to_fen" /\ ~call.raised
    /\ call.position = <<"7", "R", "/", "8", "/", "8", "/", "8", "/", "4", "K", "3", "/",
                         "8", "/", "8", "/", "8">>

\* the entry names a square a1..h8 and a piece of the vocabulary
WellFormedEntry(e) ==
    /\ e.square \in SquareLabels
    /\ e.info.type = "dict"
    /\ e.info.piece \notin {MissingKey, JsonNull}
    /\ e.info.color \notin {MissingKey, JsonNull}
    /\ PieceSymbol(LowerWord(e.info.piece), LowerWord(e.info.color)) # "None"

\* what the well-formed entries of a piece map put on (row, col): the piece
\* of the last such entry that names the square
ExpectedAt(piece_map, row, col) ==
    LET hits == {i \in 1..Len(piece_map) :
                    /\ WellFormedEntry(piece_map[i])
                    /\ piece_map[i].square = <<Files[col + 1], Ranks[8 - row]>>}
    IN  IF hits = {} THEN "None"
        ELSE LET i == CHOOSE j \in hits : \A k \in hits : k <= j
             IN  PieceSymbol(LowerWord(piece_map[i].info.piece),
                             LowerWord(piece_map[i].info.color))

\* C19: piece_map_to_fen never aborts on a bad entry: an entry whose square
\* label, piece kind or colour is not in the vocabulary, or whose piece
\* information is incomplete or no piece/colour mapping, is skipped, and all
\* other entries are encoded on their squares.
C19_BadEntriesSkipped ==
    call.op = "piece_map_to_fen" =>
        /\ ~call.raised
        /\ \A row \in 0..7, col \in 0..7 :
              call.arr[row][col] = ExpectedAt(call.piece_map, row, col)

\* C20: recognize never raises to its caller; when the model call and the
\* one fallback call both fail it returns an empty piece map.
C20_RecognizeNeverRaises ==
    call.op = "recognize" =>
        /\ ~call.raised
        /\ (call.fail1 /\ call.fail2) => call.piece_map = <<>>

\* C21: every entry of the piece map the reply parser returns, from a JSON
\* object or from the pattern matches, has a square a1..h8, a colour white or
\* black and one of the six piece kinds; other entries are dropped.
C21_ParsedEntriesInVocabulary ==
    (call.op = "recognize" /\ ~call.raised) =>
        \A i \in 1..Len(call.piece_map) :
            LET e == call.piece_map[i]
            IN  /\ e.square \in SquareLabels
                /\ e.info.type = "dict"
                /\ e.info.color \in {"white", "black"}
                /\ e.info.piece \in {"pawn", "knight", "bishop", "rook", "queen", "king"}

\* the cells of one rank segment: a digit is that many empty cells
RECURSIVE CellsFrom(_, _)
CellsFrom(segment, i) ==
    IF i > Len(segment) THEN <<>>
    ELSE (IF segment[i] \in SeqRange(Digits)
          THEN [k \in 1..(IndexOf(Digits, segment[i]) - 1) |-> "None"]
          ELSE <<segment[i]>>) \o CellsFrom(segment, i + 1)

UpperLetters == {"P", "N", "B", "R", "Q", "K"}

\* the two letters of a piece kind in the standard alphabet
StandardLetters(piece) ==
    CASE piece = "pawn" -> {"P", "p"}
      [] piece = "knight" -> {"N", "n"}
      [] piece = "bishop" -> {"B", "b"}
      [] piece = "rook" -> {"R", "r"}
      [] piece = "queen" -> {"Q", "q"}
      [] piece = "king" -> {"K", "k"}
      [] OTHER -> {}

\* the valid entry, if any, that names the square of file f and rank r
\* (1..8 each)
EntriesAt(piece_map, f, r) ==
    {i \in 1..Len(piece_map) : piece_map[i].square = <<Files[f], Ranks[r]>>}

\* C24: for a piece map whose entries are all valid, reading the placement
\* field back (rank 8 first, files a to h, digits as runs of empty cells)
\* gives exactly the map's pieces on their squares, upper case for white and
\* lower case for black, and no two digits stand next to each other.
C24_PlacementDecodesToMap ==
    (/\ call.op = "piece_map_to_fen" /\ ~call.raised
     /\ \A i \in 1..Len(call.piece_map) : WellFormedEntry(call.piece_map[i]))
    => LET segments == RankSegments(call.position)
       IN  /\ Len(segments) = 8
           /\ \A s \in 1..8 :
                 LET cells == CellsFrom(segments[s], 1)
                     rank == 9 - s
                 IN  /\ Len(cells) = 8
                     /\ \A f \in 1..8 :
                           LET hits == EntriesAt(call.piece_map, f, rank)
                           IN  /\ hits = {} <=> cells[f] = "None"
                               /\ \A i \in hits :
                                     LET info == call.piece_map[i].info
                                     IN  /\ cells[f] \in StandardLetters(LowerWord(info.piece))
                                         /\ (cells[f] \in UpperLetters)
                                               <=> (LowerWord(info.color) = "white")
                     /\ \A k \in 1..(Len(segments[s]) - 1) :
                           ~(/\ segments[s][k] \in SeqRange(Digits)
                             /\ segments[s][k + 1] \in SeqRange(Digits))

\* a black pawn on a1 and a white king on e4
C24_Witness ==
    /\ call.op = "piece_map_to_fen" /\ ~call.raised
    /\ Len(call.piece_map) = 2
    /\ call.position = <<"8", "/", "8", "/", "8", "/", "8", "/", "4", "K", "3", "/",
                         "8", "/", "8", "/", "p", "7">>

\* the cell index a coordinate falls in: the eighth of the side it lies in,
\* the first for a coordinate before the region, the last for one past it
NearestCell(v, origin, size) ==
    IF v < origin THEN 0
    ELSE IF v >= origin + size THEN 7
    ELSE (8 * (v - origin)) \div size

\* the label of the cell (column, row) counted from the top left corner
LabelOfCell(orientation, c, r) ==
    IF orientation = "white" THEN <<Files[c + 1], Ranks[8 - r]>>
    ELSE <<Files[8 - c], Ranks[r + 1]>>

\* C22: pixels_to_square returns a square label a1..h8 for every integer
\* pixel, and for a pixel outside the region the label of the nearest edge
\* cell (column and row clamped to 0..7).
C22_PixelsToSquareTotal ==
    (call.op = "pixels_to_square(x, y)") =>
        /\ call.back \in SquareLabels
        /\ call.back = LabelOfCell(call.mapper.orientation,
                                   NearestCell(call.x, call.mapper.left, call.mapper.width),
                                   NearestCell(call.y, call.mapper.top, call.mapper.height))

\* a pixel left of and below a white-bottom region is answered with a1
C22_Witness ==
    /\ call.op = "pixels_to_square(x, y)"
    /\ call.mapper.orientation = "white"
    /\ call.x < call.mapper.left - 1
    /\ call.y > call.mapper.top + call.mapper.height
    /\ call.back = <<"a", "1">>

\* the mapper of the other orientation on the same region
Opposite(mapper) ==
    [mapper EXCEPT !.orientation = IF @ = "white" THEN "black" ELSE "white"]

\* the square a 180 degree rotation of the board puts in a square's place
Rotate180(square) ==
    <<Files[9 - IndexOf(Files, Lower(square[1]))], Ranks[9 - IndexOf(Ranks, square[2])]>>

C23_JitterWithinRange ==
    (call.op = "add_pixel_jitter") =>
        LET n == call.humanizer.jitter_pixels
            dx == call.ret.x - call.x
            dy == call.ret.y - call.y
        IN  /\ -n <= dx /\ dx <= n
            /\ -n <= dy /\ dy <= n
            /\ n = 0 => (call.ret.x = call.x /\ call.ret.y = call.y)

\* the largest offset on one axis and the smallest on the other
C23_Witness ==
    /\ call.op = "add_pixel_jitter"
    /\ call.humanizer.jitter_pixels = 2
    /\ call.ret.x = call.x + 2
    /\ call.ret.y = call.y - 2

\* a humanizer without jitter returns the point it was given
C23_WitnessZero ==
    /\ call.op = "add_pixel_jitter"
    /\ call.humanizer.jitter_pixels = 0
    /\ call.ret = [x |-> call.x, y |-> call.y]

\* the point of a pointer call
PointOf(c) == [x |-> c.x, y |-> c.y]

\* the point is within n pixels of the centre on both axes
Near(p, centre, n) ==
    /\ centre.x - n <= p.x /\ p.x <= centre.x + n
    /\ centre.y - n <= p.y /\ p.y <= centre.y + n

\* C25: in drag mode the pointer is moved to the source point and then one
\* drag ends on the destination point; in click-click mode the calls are
\* move to source, click, move to destination, click; no click or drag comes
\* before the move to the source; without humanization the two points are
\* the centres of the mapped squares (with it, within jitter_pixels of them).
C25_PointerOrder ==
    (exec.called /\ MapsToTwoSquares(exec.move)) =>
        LET log == exec.ret.log
            n == Len(log)
            coords == get_move_coordinates(exec.executor.mapper, exec.move)
            slack == IF exec.executor.has_humanizer
                     THEN exec.executor.humanizer.jitter_pixels ELSE 0
            IsSource(p) == Near(p, coords.from, slack)
            IsDestination(p) == Near(p, coords.to, slack)
        IN  /\ \A i \in 1..n :
                  log[i].kind \in {"click", "drag"} =>
                      (i > 1 /\ log[i - 1].kind = "moveTo"
                       /\ \E j \in 1..(i - 1) : log[j].kind = "moveTo" /\ IsSource(PointOf(log[j])))
            /\ exec.ret.ok =>
                  IF exec.drag
                  THEN /\ log[n].kind = "drag" /\ log[n - 1].kind = "moveTo"
                       /\ \A i \in 1..(n - 1) : log[i].kind = "moveTo"
                       /\ IsSource(PointOf(log[n - 1]))
                       /\ IsDestination([x |-> log[n - 1].x + log[n].x,
                                         y |-> log[n - 1].y + log[n].y])
                  ELSE /\ Kinds(log) = <<"moveTo", "click", "moveTo", "click">>
                       /\ IsSource(PointOf(log[1]))
                       /\ IsDestination(PointOf(log[3]))

\* a completed drag of e2e4 without humanizer on the white-bottom board:
\* from the centre of e2 (550, 750) by (0, -200) to the centre of e4
C25_Witness ==
    /\ exec.called /\ exec.drag /\ exec.ret.ok
    /\ ~exec.executor.has_humanizer
    /\ exec.executor.mapper.orientation = "white"
    /\ exec.move = e2e4
    /\ exec.ret.log = <<PointerCall("moveTo", 550, 750), PointerCall("drag", 0, -200)>>

\* C27: in every ply the position string built from the recognized piece map
\* and handed to validation, the tracker and the engine has the side the
\* agent plays (the side at the bottom per the configured orientation) as
\* the side to move.
C27_SideToMoveIsAgentSide ==
    (pc \in {"validate_fen", "sync", "engine"} /\ ply.fen_before # NoFen) =>
        ply.fen_before.turn = (IF config.orientation = "white" THEN "w" ELSE "b")

\* C28: for every configured board region with left >= 0 and top >= 0 the
\* crop applied with the region to the captured image (which holds only that
\* region) keeps all width x height pixels of it and is never empty.
C28_CropKeepsWholeRegion ==
    (/\ call.op = "process_board"
     /\ call.board_region.left >= 0 /\ call.board_region.top >= 0)
    => /\ call.cropped.cols = [first |-> 0, count |-> call.board_region.width]
       /\ call.cropped.rows = [first |-> 0, count |-> call.board_region.height]
       /\ ~call.raised

\* C29: when humanization is enabled, the delay range and the jitter the
\* executor uses while executing a move are those of the agent's configured
\* humanizer (the configured values as adjusted by the skill level).
C29_ExecutorUsesConfiguredHumanizer ==
    (pc = "record" /\ config.humanizer_enabled) =>
        /\ Executor.has_humanizer
        /\ Executor.humanizer.min_delay = AgentHumanizer.min_delay
        /\ Executor.humanizer.max_delay = AgentHumanizer.max_delay
        /\ Executor.humanizer.jitter_pixels = AgentHumanizer.jitter_pixels

\* the number of invocations in a trace
Invocations(trace) == Cardinality({i \in 1..Len(trace) : trace[i] = "call"})

\* C30: a function wrapped by retry(max_attempts, delay) is invoked until it
\* first succeeds or has failed max_attempts times: the first success is
\* returned without a further invocation, there are never more than
\* max_attempts invocations, a sleep comes only between two invocations, and
\* after max_attempts failures the exception of the last attempt is raised,
\* for every max_attempts >= 0.
C30_RetrySemantics ==
    (call.op = "retry") =>
        LET n == Invocations(call.trace)
            len == Len(call.trace)
        IN  /\ n <= call.max_attempts
            /\ \A k \in 1..(n - 1) : call.outcomes[k] # "ok"
            /\ call.returned => (n >= 1 /\ call.outcomes[n] = "ok" /\ call.raised = "none")
            /\ ~call.returned =>
                  /\ n = call.max_attempts
                  /\ n >= 1 /\ call.outcomes[n] # "ok" /\ call.raised = call.outcomes[n]
            /\ \A i \in 1..len :
                  call.trace[i] = "sleep" =>
                      /\ 1 < i /\ i < len
                      /\ call.trace[i - 1] = "call" /\ call.trace[i + 1] = "call"

=============================================================================
